---- MODULE Spec2Model ----
(***************************************************************************)
(* The presigned-URL cache and proactive refresh engine of the image hook  *)
(* (module-level singleton state, refresh queue, proactive timers, getUrl  *)
(* and refreshUrl), as a state machine.  Every handler the event loop runs *)
(* to completion is one action; the only suspension point is the fetch of  *)
(* processRefreshQueue.  Times are milliseconds, as in the source.         *)
(***************************************************************************)
EXTENDS Integers, Sequences, FiniteSets, TLC

\* ------------------------------------------------------------------ bounds
\* The clock advances in steps of TickMs, MaxTicks times; after that the
\* clock reading stays and every outstanding timer is allowed to fire.
TickMs == 10000
MaxTicks == 3
\* Calls consumers make in one run: getUrl() and refreshUrl() together.
MaxCalls == 3
\* Entries of one backend response.
MaxRespLen == 2
\* Keys enqueued within one debounce window in the batching scenario.
MaxBatchKeys == 45

MaxTime == TickMs * MaxTicks

\* ------------------------------------------------------- program constants
MAX_BATCH_SIZE == 20
MAX_RETRIES == 2
DEBOUNCE_DELAY == 500
DEFAULT_EXPIRY_SECONDS == 180
MIN_REFRESH_WINDOW == 10000
MIN_SCHEDULE_DELAY == 5000
\* REFRESH_THRESHOLD = 0.8 = ThresholdNum / ThresholdDen
ThresholdNum == 4
ThresholdDen == 5
RECHECK_DELAY == 100

Keys == {"caseA-0", "caseB-1"}
\* the keys of the batching scenario, `${caseId}-${imageIndex}` by image index
BatchKeys == 1..MaxBatchKeys

NoEntry == [none |-> TRUE]
NoTimer == 0
Null == [null |-> TRUE]

Max(a, b) == IF a >= b THEN a ELSE b
Min(a, b) == IF a <= b THEN a ELSE b

\* ------------------------------------------------------------------- URLs
\* A URL is modelled by its query component: the names of the parameters it
\* carries, X-Amz-Date as its sliced clock fields (hour, minute, second of the
\* model's day) and X-Amz-Expires in seconds.
AmzDate(ms) ==
  [hh |-> ms \div 3600000, mm |-> (ms \div 60000) % 60, ss |-> (ms \div 1000) % 60]

DateUTC(d) == ((d.hh * 60 + d.mm) * 60 + d.ss) * 1000

SignedUrl(signedAtMs, validForSec) ==
  [params |-> {"X-Amz-Date", "X-Amz-Expires"},
   date |-> AmzDate(signedAtMs), expires |-> validForSec]

UnsignedUrl == [params |-> {}, date |-> AmzDate(0), expires |-> 0]

\* URLs a consumer passes to getUrl: signed when the page was rendered, for
\* 10 s (too short for a proactive timer) or for 25 s, or carrying no signature.
FallbackUrls == {SignedUrl(0, 10), SignedUrl(0, 25), UnsignedUrl}

\* URLs the backend may answer with at time t: signed now for 25 s, or one
\* signed long ago (expired already once t >= 10 s).
BackendUrls(t) == {SignedUrl(t, 25), SignedUrl(0, 10)}

\* X-Amz-Expires counted from the epoch of the model's day instead of X-Amz-Date
parseExpirationFromPresignedUrl_IgnoresDate(url, t) ==
  IF "X-Amz-Date" \notin url.params \/ "X-Amz-Expires" \notin url.params THEN Null
  ELSE IF url.expires <= 0 THEN Null
  ELSE [expiresAt |-> url.expires * 1000,
        expiresIn |-> Max(0, url.expires * 1000 - t)]

parseExpirationFromPresignedUrl(url, t) ==
  IF "X-Amz-Date" \notin url.params \/ "X-Amz-Expires" \notin url.params THEN Null
  ELSE LET baseMs == DateUTC(url.date)
           expiresSec == url.expires
       IN IF expiresSec <= 0 THEN Null
          ELSE LET expiresAtMs == baseMs + expiresSec * 1000
               IN [expiresAt |-> expiresAtMs,
                   expiresIn |-> Max(0, expiresAtMs - t)]

\* the parsed expiry ignored: every entry gets createdAt + the default TTL
MetadataFor_AlwaysDefaultTTL(url, t, expSec) ==
  [url |-> url,
   createdAt |-> t,
   expiresIn |-> expSec * 1000,
   expiresAt |-> t + expSec * 1000]

\* parsed?.expiresIn ?? fallbackExpiresIn and parsed?.expiresAt ?? (now + fallbackExpiresIn)
MetadataFor(url, t, expSec) ==
  LET parsed == parseExpirationFromPresignedUrl(url, t)
      fallbackExpiresIn == expSec * 1000
  IN [url |-> url,
      createdAt |-> t,
      expiresIn |-> IF parsed = Null THEN fallbackExpiresIn ELSE parsed.expiresIn,
      expiresAt |-> IF parsed = Null THEN t + fallbackExpiresIn ELSE parsed.expiresAt]

\* ------------------------------------------------------------------ state
VARIABLES
  now,                        \* Date.now()
  urlCache,                   \* key -> UrlMetadata, or NoEntry
  refreshQueue,               \* the Map in insertion order: <<[key, retries, waiters]>>
  proactiveRefreshTimers,     \* keys that have an entry in the timers Map
  proactiveTimeouts,          \* key -> due times of the host timers armed for it
  proactiveRefreshScheduling, \* keys marked as being scheduled
  queueProcessingTimeout,     \* handle of a queue timer, or NoTimer
  queueTimeouts,              \* outstanding queue timers: {[id, kind, due]}
  isProcessingQueue,
  expirySeconds,
  fetches,                    \* processRefreshQueue invocations suspended in fetch
  deferred,                   \* setTimeout(0) callbacks of getUrl: <<key>>
  rechecks,                   \* 100 ms callbacks of queueRefreshRequest
  futures,                    \* the promises refreshUrl handed to consumers
  calls,                      \* consumer calls made so far
  sent                        \* the request lists the batching scenario posted

vars == <<now, urlCache, refreshQueue, proactiveRefreshTimers, proactiveTimeouts,
          proactiveRefreshScheduling, queueProcessingTimeout, queueTimeouts,
          isProcessingQueue, expirySeconds, fetches, deferred, rechecks, futures,
          calls, sent>>

\* The module-level state as one value, so that a handler is a function on it.
State ==
  [now |-> now, urlCache |-> urlCache, refreshQueue |-> refreshQueue,
   proactiveRefreshTimers |-> proactiveRefreshTimers,
   proactiveTimeouts |-> proactiveTimeouts,
   proactiveRefreshScheduling |-> proactiveRefreshScheduling,
   queueProcessingTimeout |-> queueProcessingTimeout,
   queueTimeouts |-> queueTimeouts, isProcessingQueue |-> isProcessingQueue,
   expirySeconds |-> expirySeconds, fetches |-> fetches, deferred |-> deferred,
   rechecks |-> rechecks, futures |-> futures,
   notified |-> <<>>]   \* (key, url) delivered to the listeners by this handler

Becomes(s) ==
  /\ now' = s.now
  /\ urlCache' = s.urlCache
  /\ refreshQueue' = s.refreshQueue
  /\ proactiveRefreshTimers' = s.proactiveRefreshTimers
  /\ proactiveTimeouts' = s.proactiveTimeouts
  /\ proactiveRefreshScheduling' = s.proactiveRefreshScheduling
  /\ queueProcessingTimeout' = s.queueProcessingTimeout
  /\ queueTimeouts' = s.queueTimeouts
  /\ isProcessingQueue' = s.isProcessingQueue
  /\ expirySeconds' = s.expirySeconds
  /\ fetches' = s.fetches
  /\ deferred' = s.deferred
  /\ rechecks' = s.rechecks
  /\ futures' = s.futures

\* ------------------------------------------------------------- data shapes
Waiter(kind, id) == [kind |-> kind, id |-> id]
SilentWaiter == Waiter("silent", 0)        \* getUrl: .catch(() => {})
ProactiveWaiter == Waiter("proactive", 0)  \* the timer's .then/.catch chain

\* how a promise settled
Resolved(url) == [st |-> "resolved", url |-> url, err |-> ""]
Rejected(err) == [st |-> "rejected", url |-> UnsignedUrl, err |-> err]

QueuedKeys(q) == {q[i].key : i \in 1..Len(q)}
QueueIndex(q, k) == CHOOSE i \in 1..Len(q) : q[i].key = k
RemoveAt(seq, i) == SubSeq(seq, 1, i - 1) \o SubSeq(seq, i + 1, Len(seq))

isExpired(metadata, t) == t >= metadata.expiresAt

\* ------------------------------------------------------------ ChangeNotifier
\* The subscribed listeners in forEach (insertion) order: the first one throws
\* whenever it is invoked, the second one does not.
urlUpdateListeners == <<[id |-> 1, throws |-> TRUE], [id |-> 2, throws |-> FALSE]>>

Delivery(listener, key, url) == [listener |-> listener.id, key |-> key, url |-> url]

\* forEach without the try/catch: the first throw ends the iteration
notifyUrlUpdate_NoTryCatch(s, key, url) ==
  LET throwing == {i \in 1..Len(urlUpdateListeners) : urlUpdateListeners[i].throws}
      reached == IF throwing = {} THEN Len(urlUpdateListeners)
                 ELSE CHOOSE i \in throwing : \A j \in throwing : i <= j
  IN [s EXCEPT !.notified =
        @ \o [i \in 1..reached |-> Delivery(urlUpdateListeners[i], key, url)]]

\* every listener is invoked with (key, url); what a listener throws is caught
\* and logged inside the iteration
notifyUrlUpdate(s, key, url) ==
  [s EXCEPT !.notified =
     @ \o [i \in 1..Len(urlUpdateListeners) |->
             Delivery(urlUpdateListeners[i], key, url)]]

\* ---------------------------------------------------------- RefreshScheduler
\* the window test with < in place of <=
scheduleProactiveRefresh_WindowInclusive(s, key) ==
  IF key \in s.proactiveRefreshTimers THEN s
  ELSE IF s.urlCache[key] = NoEntry THEN s
  ELSE LET remainingMs == s.urlCache[key].expiresAt - s.now
           delay == (remainingMs * ThresholdNum) \div ThresholdDen
       IN IF remainingMs < MIN_REFRESH_WINDOW THEN s
          ELSE IF remainingMs * ThresholdNum < MIN_SCHEDULE_DELAY * ThresholdDen THEN s
          ELSE IF key \in s.proactiveRefreshScheduling THEN s
          ELSE [s EXCEPT
                  !.proactiveTimeouts[key] = Append(@, s.now + delay),
                  !.proactiveRefreshTimers = @ \cup {key},
                  !.proactiveRefreshScheduling = (@ \cup {key}) \ {key}]

\* without the proactiveRefreshTimers.has(key) test
scheduleProactiveRefresh_NoTimerTest(s, key) ==
  IF s.urlCache[key] = NoEntry THEN s
  ELSE LET remainingMs == s.urlCache[key].expiresAt - s.now
           delay == (remainingMs * ThresholdNum) \div ThresholdDen
       IN IF remainingMs <= MIN_REFRESH_WINDOW THEN s
          ELSE IF remainingMs * ThresholdNum < MIN_SCHEDULE_DELAY * ThresholdDen THEN s
          ELSE IF key \in s.proactiveRefreshScheduling THEN s
          ELSE [s EXCEPT
                  !.proactiveTimeouts[key] = Append(@, s.now + delay),
                  !.proactiveRefreshTimers = @ \cup {key},
                  !.proactiveRefreshScheduling = (@ \cup {key}) \ {key}]

scheduleProactiveRefresh(s, key) ==
  IF key \in s.proactiveRefreshTimers THEN s
  ELSE IF s.urlCache[key] = NoEntry THEN s
  ELSE LET remainingMs == s.urlCache[key].expiresAt - s.now
           \* remainingMs * 0.8, truncated to whole milliseconds by the host
           delay == (remainingMs * ThresholdNum) \div ThresholdDen
       IN IF remainingMs <= MIN_REFRESH_WINDOW THEN s
          ELSE IF remainingMs * ThresholdNum < MIN_SCHEDULE_DELAY * ThresholdDen THEN s
          ELSE IF key \in s.proactiveRefreshScheduling THEN s
          ELSE [s EXCEPT
                  !.proactiveTimeouts[key] = Append(@, s.now + delay),
                  !.proactiveRefreshTimers = @ \cup {key},
                  \* added before setTimeout, deleted once the timer is stored
                  !.proactiveRefreshScheduling = (@ \cup {key}) \ {key}]

\* .then((newUrl) => ...) of the timer callback
proactiveThen(s, key, newUrl) ==
  LET metadata == MetadataFor(newUrl, s.now, s.expirySeconds)
      s1 == [s EXCEPT !.urlCache[key] = metadata]
      newRemainingMs == metadata.expiresAt - s.now
      s2 == IF newRemainingMs > MIN_REFRESH_WINDOW /\ key \notin s1.proactiveRefreshTimers
            THEN scheduleProactiveRefresh(s1, key)
            ELSE s1
  IN notifyUrlUpdate(s2, key, newUrl)

\* .catch(() => ...) of the timer callback
proactiveCatch(s, key) ==
  [s EXCEPT !.proactiveRefreshTimers = @ \ {key}]

\* What runs when the promise of one waiter settles.
Settle(s, key, w, outcome) ==
  IF w.kind = "caller" THEN [s EXCEPT !.futures[w.id] = outcome.st]
  ELSE IF w.kind = "proactive"
  THEN IF outcome.st = "resolved" THEN proactiveThen(s, key, outcome.url)
       ELSE proactiveCatch(s, key)
  ELSE s

RECURSIVE SettleAll(_, _)
\* the reactions queued while a handler ran, in the order the promises settled
SettleAll(s, settled) ==
  IF settled = <<>> THEN s
  ELSE SettleAll(Settle(s, settled[1].key, settled[1].waiter, settled[1].outcome),
                 Tail(settled))

Settled(key, waiters, outcome) ==
  [i \in 1..Len(waiters) |-> [key |-> key, waiter |-> waiters[i], outcome |-> outcome]]

\* -------------------------------------------------------------- RefreshQueue
NewTimerId(timeouts) ==
  CHOOSE i \in 1..(Cardinality(timeouts) + 1) : \A t \in timeouts : t.id # i

QueueTimer(id, kind, due) == [id |-> id, kind |-> kind, due |-> due]

\* queueProcessingTimeout = setTimeout(callback of `kind`, DEBOUNCE_DELAY)
SetQueueTimeout(s, kind) ==
  LET id == NewTimerId(s.queueTimeouts)
  IN [s EXCEPT !.queueTimeouts = @ \cup {QueueTimer(id, kind, s.now + DEBOUNCE_DELAY)},
               !.queueProcessingTimeout = id]

scheduleQueueProcessing(s) ==
  LET cleared == IF s.queueProcessingTimeout # NoTimer
                 THEN [s EXCEPT !.queueTimeouts =
                         {t \in @ : t.id # s.queueProcessingTimeout}]
                 ELSE s
  IN SetQueueTimeout(cleared, "debounce")

QueuedRequest(key, w) == [key |-> key, retries |-> 0, waiters |-> <<w>>]

\* a queue kept as a list: every set appends
MapSet_AlwaysAppends(q, key, value) == Append(q, value)

\* refreshQueue.set(key, value): replaces the value of a key the Map holds
\* (keeping its position), appends otherwise
MapSet(q, key, value) ==
  IF key \in QueuedKeys(q) THEN [q EXCEPT ![QueueIndex(q, key)] = value]
  ELSE Append(q, value)

queueRefreshRequest(s, key, w) ==
  LET metadata == s.urlCache[key]
  IN IF metadata # NoEntry /\ ~isExpired(metadata, s.now)
     THEN Settle(s, key, w, Resolved(metadata.url))
     ELSE IF key \in QueuedKeys(s.refreshQueue)
     THEN [s EXCEPT !.refreshQueue[QueueIndex(s.refreshQueue, key)].waiters =
                      Append(@, w)]
     ELSE IF key \in s.proactiveRefreshTimers
     THEN [s EXCEPT !.rechecks =
                      Append(@, [key |-> key, waiter |-> w, due |-> s.now + RECHECK_DELAY])]
     ELSE scheduleQueueProcessing(
            [s EXCEPT !.refreshQueue = MapSet(@, key, QueuedRequest(key, w))])

\* the setTimeout(..., 100) callback of queueRefreshRequest
recheckCallback(s, key, w) ==
  LET updatedMetadata == s.urlCache[key]
  IN IF updatedMetadata # NoEntry /\ s.now < updatedMetadata.expiresAt
     THEN Settle(s, key, w, Resolved(updatedMetadata.url))
     ELSE scheduleQueueProcessing(
            [s EXCEPT !.refreshQueue = MapSet(@, key, QueuedRequest(key, w))])

\* the guard without the isProcessingQueue test
processRefreshQueue_IgnoresFlag(s) ==
  IF Len(s.refreshQueue) = 0 THEN s
  ELSE LET batch == SubSeq(s.refreshQueue, 1, Min(MAX_BATCH_SIZE, Len(s.refreshQueue)))
           requests == [i \in 1..Len(batch) |-> batch[i].key]
       IN [s EXCEPT !.isProcessingQueue = TRUE,
                    !.fetches = Append(@, [requests |-> requests])]

\* the batch without slice(0, MAX_BATCH_SIZE)
processRefreshQueue_WholeQueue(s) ==
  IF s.isProcessingQueue \/ Len(s.refreshQueue) = 0 THEN s
  ELSE LET batch == s.refreshQueue
           requests == [i \in 1..Len(batch) |-> batch[i].key]
       IN [s EXCEPT !.isProcessingQueue = TRUE,
                    !.fetches = Append(@, [requests |-> requests])]

\* processRefreshQueue up to its first await: the guard, the flag, the batch
\* and the fetch that is left in flight
processRefreshQueue(s) ==
  IF s.isProcessingQueue \/ Len(s.refreshQueue) = 0 THEN s
  ELSE LET batch == SubSeq(s.refreshQueue, 1, Min(MAX_BATCH_SIZE, Len(s.refreshQueue)))
           requests == [i \in 1..Len(batch) |-> batch[i].key]
       IN [s EXCEPT !.isProcessingQueue = TRUE,
                    !.fetches = Append(@, [requests |-> requests])]

\* the success branch without the call of scheduleProactiveRefresh
ProcessOne_NoReschedule(acc, response) ==
  LET s == acc.s
      key == response.key
  IN IF key \notin QueuedKeys(s.refreshQueue) THEN acc
     ELSE LET i == QueueIndex(s.refreshQueue, key)
              queued == s.refreshQueue[i]
          IN IF response.success /\ response.hasUrl
             THEN LET s1 == [s EXCEPT !.urlCache[key] =
                                 MetadataFor(response.url, s.now, s.expirySeconds)]
                      s3 == notifyUrlUpdate(s1, key, response.url)
                  IN [s |-> [s3 EXCEPT !.refreshQueue = RemoveAt(@, i)],
                      settled |-> acc.settled \o
                                  Settled(key, queued.waiters, Resolved(response.url))]
             ELSE IF queued.retries < MAX_RETRIES
             THEN [acc EXCEPT !.s.refreshQueue[i].retries = @ + 1]
             ELSE [s |-> [s EXCEPT !.refreshQueue = RemoveAt(@, i)],
                   settled |-> acc.settled \o
                               Settled(key, queued.waiters, Rejected("refresh"))]

\* one iteration of `for (const response of responses)`; acc = [s, settled]
ProcessOne(acc, response) ==
  LET s == acc.s
      key == response.key
  IN IF key \notin QueuedKeys(s.refreshQueue) THEN acc
     ELSE LET i == QueueIndex(s.refreshQueue, key)
              queued == s.refreshQueue[i]
          IN IF response.success /\ response.hasUrl
             THEN LET s1 == [s EXCEPT !.urlCache[key] =
                                 MetadataFor(response.url, s.now, s.expirySeconds)]
                      s2 == scheduleProactiveRefresh(s1, key)
                      s3 == notifyUrlUpdate(s2, key, response.url)
                  IN [s |-> [s3 EXCEPT !.refreshQueue = RemoveAt(@, i)],
                      settled |-> acc.settled \o
                                  Settled(key, queued.waiters, Resolved(response.url))]
             ELSE IF queued.retries < MAX_RETRIES
             THEN [acc EXCEPT !.s.refreshQueue[i].retries = @ + 1]
             ELSE [s |-> [s EXCEPT !.refreshQueue = RemoveAt(@, i)],
                   settled |-> acc.settled \o
                               Settled(key, queued.waiters, Rejected("refresh"))]

RECURSIVE ProcessResponses(_, _)
ProcessResponses(acc, responses) ==
  IF responses = <<>> THEN acc
  ELSE ProcessResponses(ProcessOne(acc, responses[1]), Tail(responses))

\* processRefreshQueue after the fetch answered 200 with {success, data}:
\* the rest of the try block, then the reactions of the settled promises
processResponse(s, i, body) ==
  LET s0 == [s EXCEPT !.fetches = RemoveAt(@, i),
                      !.expirySeconds = IF body.expirySeconds > 0
                                        THEN body.expirySeconds ELSE @]
      acc == ProcessResponses([s |-> s0, settled |-> <<>>], body.data)
      s1 == IF Len(acc.s.refreshQueue) > 0
            THEN SetQueueTimeout(acc.s, "restart")
            ELSE [acc.s EXCEPT !.isProcessingQueue = FALSE]
  IN SettleAll(s1, acc.settled)

RECURSIVE RejectBatch(_, _)
\* the catch block's loop over the first MAX_BATCH_SIZE entries of the queue
RejectBatch(acc, n) ==
  IF n = 0 \/ acc.s.refreshQueue = <<>> THEN acc
  ELSE LET item == acc.s.refreshQueue[1]
       IN RejectBatch(
            [s |-> [acc.s EXCEPT !.refreshQueue = Tail(@)],
             settled |-> acc.settled \o
                         Settled(item.key, item.waiters, Rejected("transport"))],
            n - 1)

\* the catch block evicting the entries of the keys it rejects
processFailure_EvictsEntries(s, i) ==
  LET s0 == [s EXCEPT !.fetches = RemoveAt(@, i)]
      acc == RejectBatch([s |-> s0, settled |-> <<>>], MAX_BATCH_SIZE)
      s1 == [acc.s EXCEPT !.isProcessingQueue = FALSE,
                          !.urlCache = [k \in DOMAIN @ |->
                             IF k \in QueuedKeys(s0.refreshQueue) THEN NoEntry ELSE @[k]]]
      s2 == IF Len(s1.refreshQueue) > 0 THEN SetQueueTimeout(s1, "retry") ELSE s1
  IN SettleAll(s2, acc.settled)

\* processRefreshQueue when the fetch threw, answered non-OK or sent a body
\* that is not {success: true, data: [...]}: the catch block
processFailure(s, i) ==
  LET s0 == [s EXCEPT !.fetches = RemoveAt(@, i)]
      acc == RejectBatch([s |-> s0, settled |-> <<>>], MAX_BATCH_SIZE)
      s1 == [acc.s EXCEPT !.isProcessingQueue = FALSE]
      s2 == IF Len(s1.refreshQueue) > 0 THEN SetQueueTimeout(s1, "retry") ELSE s1
  IN SettleAll(s2, acc.settled)

\* the callbacks of the three queue timers
queueTimerCallback(s, t) ==
  LET s0 == [s EXCEPT !.queueTimeouts = @ \ {t},
                      !.queueProcessingTimeout = NoTimer,
                      !.isProcessingQueue = IF t.kind = "restart" THEN FALSE ELSE @]
  IN processRefreshQueue(s0)

\* the callback of a proactive timer
proactiveTimerCallback(s, key, i) ==
  LET s0 == [s EXCEPT !.proactiveTimeouts[key] = RemoveAt(@, i),
                      !.proactiveRefreshTimers = @ \ {key},
                      !.proactiveRefreshScheduling = @ \ {key}]
  IN queueRefreshRequest(s0, key, ProactiveWaiter)

\* --------------------------------------------------------------- CacheFacade
\* the test without hasProactiveTimer
getUrlSchedulesRefresh_IgnoresTimer(s, key) ==
  key \notin QueuedKeys(s.refreshQueue)

\* !isQueued && !hasProactiveTimer
getUrlSchedulesRefresh(s, key) ==
  key \notin QueuedKeys(s.refreshQueue) /\ key \notin s.proactiveRefreshTimers

getUrl(s, key, originalUrl) ==
  LET metadata == s.urlCache[key]
  IN IF metadata # NoEntry
     THEN IF ~isExpired(metadata, s.now) THEN s
          ELSE IF getUrlSchedulesRefresh(s, key)
          THEN [s EXCEPT !.deferred = Append(@, key)]
          ELSE s
     ELSE LET fresh == MetadataFor(originalUrl, s.now, s.expirySeconds)
          IN IF fresh.expiresAt > s.now \/ fresh.expiresIn > 0
             THEN LET s1 == [s EXCEPT !.urlCache[key] = fresh]
                  IN IF fresh.expiresAt <= s.now
                     THEN IF getUrlSchedulesRefresh(s1, key)
                          THEN [s1 EXCEPT !.deferred = Append(@, key)]
                          ELSE s1
                     ELSE IF fresh.expiresAt - s.now > MIN_REFRESH_WINDOW
                             /\ key \notin s1.proactiveRefreshTimers
                          THEN scheduleProactiveRefresh(s1, key)
                          ELSE s1
             ELSE s

\* the argument handed back whatever the cache holds
getUrlResult_ReturnsArgument(s, key, originalUrl) == originalUrl

\* what getUrl returns, from the state it was called in
getUrlResult(s, key, originalUrl) ==
  IF s.urlCache[key] # NoEntry THEN s.urlCache[key].url ELSE originalUrl

\* --------------------------------------------------------------- the backend
\* Entries of a response body: {caseId, imageIndex, success, url?}
ResponseEntries(t) ==
  {[key |-> k, success |-> TRUE, hasUrl |-> TRUE, url |-> u] :
     k \in Keys, u \in BackendUrls(t)}
  \cup {[key |-> k, success |-> FALSE, hasUrl |-> FALSE, url |-> UnsignedUrl] :
     k \in Keys}

RECURSIVE SeqsUpTo(_, _)
SeqsUpTo(S, n) ==
  IF n = 0 THEN {<<>>}
  ELSE LET shorter == SeqsUpTo(S, n - 1)
       IN shorter \cup {Append(q, e) : q \in shorter, e \in S}

\* data.expirySeconds: the expiry the backend is configured with, in seconds
\* (0 stands for a body without the field)
ExpirySecondsSent == {15}

ResponseBodies(t) ==
  [expirySeconds : ExpirySecondsSent, data : SeqsUpTo(ResponseEntries(t), MaxRespLen)]

\* -------------------------------------------------------------------- timers
\* A host timer may run once its delay has passed; past the horizon of the
\* model clock every outstanding timer may run.
Due(due) == due <= now \/ now >= MaxTime

NoTimerDue ==
  /\ deferred = <<>>
  /\ \A t \in queueTimeouts : t.due > now
  /\ \A k \in DOMAIN proactiveTimeouts :
       \A i \in 1..Len(proactiveTimeouts[k]) : proactiveTimeouts[k][i] > now
  /\ \A i \in 1..Len(rechecks) : rechecks[i].due > now

\* ------------------------------------------------------------------- actions
\* the module as loaded, for the keys the consumers will use
InitFor(keys) ==
  /\ now = 0
  /\ urlCache = [k \in keys |-> NoEntry]
  /\ refreshQueue = <<>>
  /\ proactiveRefreshTimers = {}
  /\ proactiveTimeouts = [k \in keys |-> <<>>]
  /\ proactiveRefreshScheduling = {}
  /\ queueProcessingTimeout = NoTimer
  /\ queueTimeouts = {}
  /\ isProcessingQueue = FALSE
  /\ expirySeconds = DEFAULT_EXPIRY_SECONDS
  /\ fetches = <<>>
  /\ deferred = <<>>
  /\ rechecks = <<>>
  /\ futures = [i \in 1..MaxCalls |-> "unused"]
  /\ calls = 0
  /\ sent = <<>>

Init == InitFor(Keys)

\* a consumer renders an image: getUrl(caseId, imageIndex, originalUrl)
GetUrl ==
  \E k \in Keys, u \in FallbackUrls :
    /\ calls < MaxCalls
    /\ calls' = calls + 1
    /\ Becomes(getUrl(State, k, u))
    /\ UNCHANGED sent

\* a consumer asks for a refresh: refreshUrl(caseId, imageIndex)
RefreshUrl ==
  \E k \in Keys :
    /\ calls < MaxCalls
    /\ calls' = calls + 1
    /\ Becomes(queueRefreshRequest([State EXCEPT !.futures[calls + 1] = "pending"],
                                   k, Waiter("caller", calls + 1)))
    /\ UNCHANGED sent

\* the setTimeout(..., 0) of getUrl runs
DeferredRefresh ==
  /\ deferred # <<>>
  /\ Becomes(queueRefreshRequest([State EXCEPT !.deferred = Tail(@)],
                                 Head(deferred), SilentWaiter))
  /\ UNCHANGED <<calls, sent>>

\* the setTimeout(..., 100) of queueRefreshRequest runs
Recheck ==
  \E i \in 1..Len(rechecks) :
    /\ Due(rechecks[i].due)
    /\ \A j \in 1..(i - 1) : rechecks[j].due > rechecks[i].due
    /\ Becomes(recheckCallback([State EXCEPT !.rechecks = RemoveAt(@, i)],
                               rechecks[i].key, rechecks[i].waiter))
    /\ UNCHANGED <<calls, sent>>

\* a proactive timer fires
ProactiveTimerFires ==
  \E k \in Keys : \E i \in 1..Len(proactiveTimeouts[k]) :
    /\ Due(proactiveTimeouts[k][i])
    /\ Becomes(proactiveTimerCallback(State, k, i))
    /\ UNCHANGED <<calls, sent>>

\* a queue timer fires
QueueTimerFires ==
  \E t \in queueTimeouts :
    /\ Due(t.due)
    /\ Becomes(queueTimerCallback(State, t))
    /\ UNCHANGED <<calls, sent>>

\* the backend answers a batch with a well-formed body
FetchResponse ==
  \E i \in 1..Len(fetches) : \E body \in ResponseBodies(now) :
    /\ Becomes(processResponse(State, i, body))
    /\ UNCHANGED <<calls, sent>>

\* the fetch fails: network error, non-OK status or malformed body
FetchFailure ==
  \E i \in 1..Len(fetches) :
    /\ Becomes(processFailure(State, i))
    /\ UNCHANGED <<calls, sent>>

\* time passes; a timer that is due runs before the clock moves on
Tick ==
  /\ now < MaxTime
  /\ NoTimerDue
  /\ Becomes([State EXCEPT !.now = @ + TickMs])
  /\ UNCHANGED <<calls, sent>>

Next ==
  \/ GetUrl
  \/ RefreshUrl
  \/ DeferredRefresh
  \/ Recheck
  \/ ProactiveTimerFires
  \/ QueueTimerFires
  \/ FetchResponse
  \/ FetchFailure
  \/ Tick

Spec == Init /\ [][Next]_vars

\* ----------------------------------------------- a backend that always answers
\* The key whose requests the backend always serves with a freshly signed URL.
ServedKey == "caseA-0"

\* One entry per requested key, in request order: ServedKey succeeds with a URL
\* signed now for 25 s; any other key succeeds, with that URL, with one signed
\* long ago or with one that carries no signature, or fails.
AnswerEntries(k, t) ==
  {[key |-> k, success |-> TRUE, hasUrl |-> TRUE, url |-> SignedUrl(t, 25)]}
  \cup IF k = ServedKey THEN {}
       ELSE {[key |-> k, success |-> TRUE, hasUrl |-> TRUE, url |-> SignedUrl(0, 10)],
             [key |-> k, success |-> TRUE, hasUrl |-> TRUE, url |-> UnsignedUrl],
             [key |-> k, success |-> FALSE, hasUrl |-> FALSE, url |-> UnsignedUrl]}

Answers(requests, t) ==
  {data \in [1..Len(requests) -> UNION {AnswerEntries(k, t) : k \in Keys}] :
     \A j \in 1..Len(requests) : data[j] \in AnswerEntries(requests[j], t)}

FetchAnswer ==
  \E i \in 1..Len(fetches) : \E data \in Answers(fetches[i].requests, now) :
    /\ Becomes(processResponse(State, i, [expirySeconds |-> 0, data |-> data]))
    /\ UNCHANGED <<calls, sent>>

AnsweringNext ==
  \/ GetUrl
  \/ RefreshUrl
  \/ DeferredRefresh
  \/ Recheck
  \/ ProactiveTimerFires
  \/ QueueTimerFires
  \/ FetchAnswer
  \/ Tick

AnsweringSpec == Init /\ [][AnsweringNext]_vars

\* ------------------------------------------------------ the batching scenario
\* Distinct keys are enqueued one after the other within one debounce window,
\* the backend serves every key of every batch, and the request list of every
\* POST is recorded in `sent`.
BatchEnqueue ==
  /\ calls < MaxBatchKeys
  /\ now < DEBOUNCE_DELAY
  /\ calls' = calls + 1
  /\ Becomes(queueRefreshRequest(State, calls + 1, SilentWaiter))
  /\ UNCHANGED sent

BatchTimerFires ==
  \E t \in queueTimeouts :
    /\ Due(t.due)
    /\ LET s == queueTimerCallback(State, t)
       IN /\ Becomes(s)
          /\ sent' = IF Len(s.fetches) > Len(fetches)
                     THEN Append(sent, s.fetches[Len(s.fetches)].requests)
                     ELSE sent
    /\ UNCHANGED calls

\* every requested key succeeds, with a URL signed now for 10 s
BatchAnswer ==
  \E i \in 1..Len(fetches) : \E e \in ExpirySecondsSent :
    /\ Becomes(processResponse(State, i,
         [expirySeconds |-> e,
          data |-> [j \in 1..Len(fetches[i].requests) |->
                     [key |-> fetches[i].requests[j], success |-> TRUE,
                      hasUrl |-> TRUE, url |-> SignedUrl(now, 10)]]]))
    /\ UNCHANGED <<calls, sent>>

BatchNext ==
  \/ BatchEnqueue
  \/ BatchTimerFires
  \/ BatchAnswer
  \/ Tick

BatchSpec == InitFor(BatchKeys) /\ [][BatchNext]_vars

\* ------------------------------------------------------- steps and snapshots
GetUrlStep(k, u) == calls' = calls + 1 /\ Becomes(getUrl(State, k, u))

RefreshUrlStep(k) ==
  /\ calls' = calls + 1
  /\ Becomes(queueRefreshRequest([State EXCEPT !.futures[calls + 1] = "pending"],
                                 k, Waiter("caller", calls + 1)))

ProactiveStep(k, i) ==
  /\ i \in 1..Len(proactiveTimeouts[k])
  /\ Due(proactiveTimeouts[k][i])
  /\ Becomes(proactiveTimerCallback(State, k, i))
  /\ UNCHANGED <<calls, sent>>

ResponseStep(i, body) ==
  i \in 1..Len(fetches) /\ Becomes(processResponse(State, i, body)) /\ UNCHANGED <<calls, sent>>

FailureStep(i) ==
  i \in 1..Len(fetches) /\ Becomes(processFailure(State, i)) /\ UNCHANGED <<calls, sent>>

AnswerStep(i, data) ==
  /\ i \in 1..Len(fetches)
  /\ Becomes(processResponse(State, i, [expirySeconds |-> 0, data |-> data]))
  /\ UNCHANGED <<calls, sent>>

Range(seq) == {seq[i] : i \in 1..Len(seq)}
Occurrences(seq, x) == Cardinality({i \in 1..Len(seq) : seq[i] = x})
Record(q, k) == q[QueueIndex(q, k)]
\* The URL carries both signature parameters and a positive validity.
Signed(url) ==
  /\ {"X-Amz-Date", "X-Amz-Expires"} \subseteq url.params
  /\ url.expires > 0

HasEntry(k) == urlCache[k] # NoEntry
Stale(k) == HasEntry(k) /\ isExpired(urlCache[k], now)
Fresh(k) == HasEntry(k) /\ ~isExpired(urlCache[k], now)

\* Nothing is left that could run code: no fetch in flight, no timer outstanding.
AtRest ==
  /\ fetches = <<>>
  /\ queueTimeouts = {}
  /\ deferred = <<>>
  /\ rechecks = <<>>
  /\ \A k \in DOMAIN proactiveTimeouts : proactiveTimeouts[k] = <<>>

\* ------------------------------------------------------------------- claims
\* C1: for every key, at most one backend request containing the key is in
\* flight, the key occurs at most once in a batch that is sent, and the pending
\* set holds at most one record for it, however many refreshUrl calls were made
\* while the record existed.
C1_Dedup ==
  \A k \in Keys :
    /\ Cardinality({i \in 1..Len(fetches) : k \in Range(fetches[i].requests)}) <= 1
    /\ \A i \in 1..Len(fetches) : Occurrences(fetches[i].requests, k) <= 1
    /\ Cardinality({i \in 1..Len(refreshQueue) : refreshQueue[i].key = k}) <= 1

\* two refreshUrl calls wait on the record of a key whose request is in flight
C1_Witness ==
  \E k \in Keys :
    /\ k \in QueuedKeys(refreshQueue)
    /\ Cardinality({w \in Range(Record(refreshQueue, k).waiters) : w.kind = "caller"}) >= 2
    /\ \E i \in 1..Len(fetches) : Occurrences(fetches[i].requests, k) = 1

\* C2: every future returned by refreshUrl eventually settles when timers fire
\* and the backend answers.  Only timers and fetch answers run code, so the
\* claim requires that no future is pending once nothing is outstanding.
C2_NoFutureLeftPending ==
  AtRest => \A i \in 1..MaxCalls : futures[i] # "pending"

\* C3: when the proactive timer of a key fires before the entry's expiresAt,
\* the key has a record in the pending set immediately afterwards.
C3_TimerEnqueues ==
  [][\A k \in Keys : \A i \in 1..Len(proactiveTimeouts[k]) :
       (ProactiveStep(k, i) /\ Fresh(k)) => k \in QueuedKeys(refreshQueue')]_vars

\* C4: at most one backend batch call is in flight.
C4_OneBatchInFlight == Len(fetches) <= 1

\* a batch is in flight while a queue timer is outstanding and a key that was
\* enqueued after the batch was sent waits in the pending set
C4_Witness ==
  /\ Len(fetches) = 1
  /\ queueTimeouts # {}
  /\ \E k \in QueuedKeys(refreshQueue) : k \notin Range(fetches[1].requests)

\* C5: after a transport-wide failure every key of the batch whose retry
\* counter is below the limit stays pending with the counter incremented, and
\* its waiters are rejected only when the limit is exceeded.
C5_TransportFailureRetries ==
  [][\A i \in 1..Len(fetches) : FailureStep(i) =>
       \A k \in Range(fetches[i].requests) \cap QueuedKeys(refreshQueue) :
         LET r == Record(refreshQueue, k)
         IN IF r.retries < MAX_RETRIES
            THEN /\ k \in QueuedKeys(refreshQueue')
                 /\ Record(refreshQueue', k) = [r EXCEPT !.retries = @ + 1]
            ELSE k \notin QueuedKeys(refreshQueue')]_vars

\* C6: a requested key that the response omits is treated as failed: its
\* retry counter is incremented while below the limit, and the record is
\* removed once the limit is exceeded.
C6_OmittedKeyCountsAsFailure ==
  [][\A i \in 1..Len(fetches) : \A body \in ResponseBodies(now) :
       ResponseStep(i, body) =>
         \A k \in Range(fetches[i].requests) \cap QueuedKeys(refreshQueue) :
           (\A j \in 1..Len(body.data) : body.data[j].key # k) =>
             LET r == Record(refreshQueue, k)
             IN IF r.retries < MAX_RETRIES
                THEN /\ k \in QueuedKeys(refreshQueue')
                     /\ Record(refreshQueue', k).retries = r.retries + 1
                ELSE k \notin QueuedKeys(refreshQueue')]_vars

\* C7: a key whose result in a batch is success:false keeps its record with
\* the retry counter incremented by one while the counter is below MAX_RETRIES
\* (so after the first and the second failed batch), and is removed with its
\* waiters rejected by the failed batch that finds the counter at MAX_RETRIES
\* (the third): neither earlier nor later.
C7_RetryExhaustion ==
  [][\A i \in 1..Len(fetches) : \A body \in ResponseBodies(now) :
       ResponseStep(i, body) =>
         \A k \in Range(fetches[i].requests) \cap QueuedKeys(refreshQueue) :
           (/\ \E j \in 1..Len(body.data) : body.data[j].key = k
            /\ \A j \in 1..Len(body.data) :
                 body.data[j].key = k => ~body.data[j].success) =>
             LET r == Record(refreshQueue, k)
             IN IF r.retries < MAX_RETRIES
                THEN /\ k \in QueuedKeys(refreshQueue')
                     /\ Record(refreshQueue', k) = [r EXCEPT !.retries = @ + 1]
                ELSE /\ k \notin QueuedKeys(refreshQueue')
                     /\ \A w \in Range(r.waiters) :
                          w.kind = "caller" => futures'[w.id] = "rejected"]_vars

\* C8: getUrl on a key without an entry stores an entry for the key with the
\* fallback URL and its expiry, also when that expiry is already in the past,
\* and returns the fallback URL.
C8_GetSeedsEntry ==
  [][\A k \in Keys, u \in FallbackUrls :
       (GetUrlStep(k, u) /\ ~HasEntry(k)) =>
         /\ urlCache'[k] = MetadataFor(u, now, expirySeconds)
         /\ getUrlResult(State, k, u) = u]_vars

\* C9: getUrl on an expired entry returns the cached url, changes neither the
\* cache nor the pending set nor the fetches in flight, and schedules the
\* enqueue of the key exactly when the key has no record and no proactive timer.
C9_StaleRead ==
  [][\A k \in Keys, u \in FallbackUrls :
       (GetUrlStep(k, u) /\ Stale(k)) =>
         /\ getUrlResult(State, k, u) = urlCache[k].url
         /\ urlCache' = urlCache
         /\ refreshQueue' = refreshQueue
         /\ fetches' = fetches
         /\ isProcessingQueue' = isProcessingQueue
         /\ deferred' = IF k \notin QueuedKeys(refreshQueue)
                           /\ k \notin proactiveRefreshTimers
                        THEN Append(deferred, k)
                        ELSE deferred]_vars

\* an expired entry was read: the enqueue of its key is scheduled
C9_Witness ==
  \E k \in Keys : Stale(k) /\ k \in Range(deferred)

\* C10: an expired entry that getUrl has read returns to FRESH when its
\* requests are answered with fresh URLs and timers fire.  The read leaves a
\* waiter of getUrl in the key's record; the claim requires that no such
\* record is left, with the entry still expired, once nothing is outstanding.
C10_StaleEntryRefreshed ==
  AtRest =>
    ~(/\ Stale(ServedKey)
      /\ ServedKey \in QueuedKeys(refreshQueue)
      /\ SilentWaiter \in Range(Record(refreshQueue, ServedKey).waiters))

\* C11: refreshUrl on a key that has no record in the pending set creates the
\* record at once, whether or not the cached entry is still unexpired and
\* whether or not a proactive timer is outstanding for the key.
C11_RefreshAlwaysEnqueues ==
  [][\A k \in Keys :
       (RefreshUrlStep(k) /\ k \notin QueuedKeys(refreshQueue)) =>
         k \in QueuedKeys(refreshQueue')]_vars

\* C12: every POST carries at most MAX_BATCH_SIZE keys, and K distinct keys
\* enqueued within one debounce window, all served, are posted in enqueue
\* order in exactly ceil(K / MAX_BATCH_SIZE) requests: full batches followed
\* by the remainder (45 keys: 20, 20 and 5), after which the queue is empty.
C12_BatchBound ==
  /\ \A i \in 1..Len(sent) :
       /\ Len(sent[i]) <= MAX_BATCH_SIZE
       /\ sent[i] = [j \in 1..Len(sent[i]) |-> (i - 1) * MAX_BATCH_SIZE + j]
  /\ (fetches = <<>> /\ queueTimeouts = {}) =>
       /\ refreshQueue = <<>>
       /\ Len(sent) = (calls + MAX_BATCH_SIZE - 1) \div MAX_BATCH_SIZE
       /\ \A i \in 1..Len(sent) :
            Len(sent[i]) = IF i * MAX_BATCH_SIZE <= calls THEN MAX_BATCH_SIZE
                           ELSE calls - (i - 1) * MAX_BATCH_SIZE

\* all the keys were enqueued and served: at least three requests were posted,
\* the last of them a partial batch
C12_Witness ==
  /\ calls = MaxBatchKeys
  /\ fetches = <<>> /\ queueTimeouts = {} /\ refreshQueue = <<>>
  /\ Len(sent) >= 3
  /\ Len(sent[Len(sent)]) < MAX_BATCH_SIZE

\* C13: at most one proactive-refresh timer is outstanding per key, and the
\* timers Map holds a handle for exactly the keys that have one; this includes
\* the states after a timer's own refresh promise was rejected and its error
\* handler deleted the key from the Map.
C13_OneTimerPerKey ==
  \A k \in Keys :
    /\ Len(proactiveTimeouts[k]) <= 1
    /\ k \in proactiveRefreshTimers <=> proactiveTimeouts[k] # <<>>

\* a timer is outstanding for an entry the backend served, after a refresh of
\* the key was rejected
C13_Witness ==
  \E k \in Keys :
    /\ Len(proactiveTimeouts[k]) = 1
    /\ HasEntry(k) /\ urlCache[k].url \notin FallbackUrls
    /\ \E i \in 1..MaxCalls : futures[i] = "rejected"
    /\ \A o \in Keys \ {k} : ~HasEntry(o) /\ o \notin QueuedKeys(refreshQueue)

RECURSIVE LastEntries(_)
\* a response body's entries with, for every key, only the last one kept
LastEntries(data) ==
  IF data = <<>> THEN <<>>
  ELSE IF \E j \in 2..Len(data) : data[j].key = data[1].key
       THEN LastEntries(Tail(data))
       ELSE <<data[1]>> \o LastEntries(Tail(data))

\* C14: when a response holds several entries for one key, the cache, the
\* pending set with its retry counters and the outcome of the waiters after
\* processing are those that the last entry of every key alone determines.
C14_LastEntryWins ==
  [][\A i \in 1..Len(fetches) : \A body \in ResponseBodies(now) :
       ResponseStep(i, body) =>
         LET last == processResponse(State, i,
                       [body EXCEPT !.data = LastEntries(body.data)])
         IN /\ urlCache' = last.urlCache
            /\ refreshQueue' = last.refreshQueue
            /\ futures' = last.futures]_vars

\* C15: two getUrl calls made back to back on a key without an entry store the
\* entry exactly once (the first call stores it, the second stores nothing)
\* and arm the key's proactive timer exactly once when the URL has more than
\* MIN_REFRESH_WINDOW left, never twice.
C15_TwoGetsOnePut ==
  [][\A k \in Keys, u \in FallbackUrls :
       (GetUrlStep(k, u) /\ ~HasEntry(k)) =>
         \A u2 \in FallbackUrls :
           LET first == getUrl(State, k, u)
               second == getUrl(first, k, u2)
               armed == Len(second.proactiveTimeouts[k]) - Len(proactiveTimeouts[k])
           IN /\ first.urlCache[k] = MetadataFor(u, now, expirySeconds)
              /\ second.urlCache = first.urlCache
              /\ armed = IF first.urlCache[k].expiresAt - now > MIN_REFRESH_WINDOW
                         THEN 1 ELSE 0]_vars

\* C16: getUrl on a key whose entry exists and has not expired returns the
\* cached url, not its argument, and leaves the cache, the pending set, the
\* proactive timers and the queue timers (and everything else) as they were.
C16_FreshRead ==
  [][\A k \in Keys, u \in FallbackUrls :
       (GetUrlStep(k, u) /\ Fresh(k)) =>
         /\ getUrlResult(State, k, u) = urlCache[k].url
         /\ UNCHANGED <<urlCache, refreshQueue, proactiveRefreshTimers,
                        proactiveTimeouts, proactiveRefreshScheduling,
                        queueProcessingTimeout, queueTimeouts, isProcessingQueue,
                        fetches, deferred, rechecks, futures, expirySeconds>>]_vars

\* two getUrl calls were made at load time, both on the same key: the second
\* one read the entry the first one had stored
C16_Witness ==
  /\ now = 0 /\ calls = 2
  /\ \A i \in 1..MaxCalls : futures[i] = "unused"
  /\ \E k \in Keys : Fresh(k) /\ \A o \in Keys \ {k} : ~HasEntry(o)

\* the listeners were all invoked with (key, url) by the handler that produced s
Published(s, key, url) ==
  \A i \in 1..Len(urlUpdateListeners) :
    Delivery(urlUpdateListeners[i], key, url) \in Range(s.notified)

\* C17: every store of an entry into the cache, the seeding store of getUrl
\* on an unseen key as well as the replacement by a successful refresh, is
\* accompanied by a notification (key, entry.url) to the listeners.
C17_StorePublishes ==
  [][/\ \A k \in Keys, u \in FallbackUrls :
          (GetUrlStep(k, u) /\ urlCache'[k] # urlCache[k]) =>
            Published(getUrl(State, k, u), k, urlCache'[k].url)
     /\ \A i \in 1..Len(fetches) : \A body \in ResponseBodies(now) :
          ResponseStep(i, body) =>
            \A k \in Keys :
              urlCache'[k] # urlCache[k] =>
                Published(processResponse(State, i, body), k, urlCache'[k].url)]_vars

\* C18: a refresh failure leaves the cache entry of every affected key as it
\* was, so that getUrl keeps returning the same url.  A transport failure
\* changes no entry; and when a batch completes, a key whose record stays in
\* the pending set (failed and retried) or whose callers are rejected (retries
\* exhausted) keeps its entry, and so does what getUrl returns for it.
C18_FailureKeepsEntry ==
  [][/\ \A i \in 1..Len(fetches) : FailureStep(i) => urlCache' = urlCache
     /\ Len(fetches') < Len(fetches) =>
          \A k \in QueuedKeys(refreshQueue) :
            (\/ k \in QueuedKeys(refreshQueue')
             \/ \E w \in Range(Record(refreshQueue, k).waiters) :
                  w.kind = "caller" /\ futures'[w.id] = "rejected") =>
              /\ urlCache'[k] = urlCache[k]
              /\ \A u \in FallbackUrls :
                   getUrlResult([urlCache |-> urlCache'], k, u)
                     = getUrlResult(State, k, u)]_vars

\* a refresh of a key with an expired entry was rejected: the entry is still
\* there, expired, and the key has left the pending set
C18_Witness ==
  \E k \in Keys :
    /\ Stale(k) /\ k \notin QueuedKeys(refreshQueue)
    /\ \E i \in 1..MaxCalls : futures[i] = "rejected"
    /\ \A o \in Keys \ {k} : ~HasEntry(o) /\ o \notin QueuedKeys(refreshQueue)
    /\ proactiveTimeouts[k] = <<>>

\* C19: a notification reaches every subscribed listener although one of them
\* throws, and the throw disturbs nothing else: when the backend answers a
\* batch, every key it serves has (key, url) delivered to all listeners, its
\* entry replaced by the served URL, its record removed from the pending set
\* and its callers resolved, and the batch is completed.
C19_ThrowingListener ==
  [][\A i \in 1..Len(fetches) : \A data \in Answers(fetches[i].requests, now) :
       AnswerStep(i, data) =>
         LET s == processResponse(State, i, [expirySeconds |-> 0, data |-> data])
         IN /\ Len(fetches') = Len(fetches) - 1
            /\ \A j \in 1..Len(data) :
                 (data[j].success /\ data[j].key \in QueuedKeys(refreshQueue)) =>
                   /\ Published(s, data[j].key, data[j].url)
                   /\ urlCache'[data[j].key].url = data[j].url
                   /\ data[j].key \notin QueuedKeys(refreshQueue')
                   /\ \A w \in Range(Record(refreshQueue, data[j].key).waiters) :
                        w.kind = "caller" => futures'[w.id] = "resolved"]_vars

\* the only call made was a refreshUrl; the backend served it, the listeners
\* (the throwing one among them) were notified and the caller was resolved
C19_Witness ==
  /\ calls = 1 /\ futures[1] = "resolved"
  /\ \E k \in Keys : HasEntry(k) /\ urlCache[k].createdAt > 0
                      /\ k \notin QueuedKeys(refreshQueue)
  /\ \E i \in 1..Len(urlUpdateListeners) : urlUpdateListeners[i].throws

\* C20: after every successful refresh of a key, for any URL the backend may
\* return, the new entry's expiresAt is not before the createdAt of the entry
\* it replaces.
C20_ExpiryNotBeforeCreation ==
  [][Len(fetches') < Len(fetches) =>
       \A k \in Keys :
         (HasEntry(k) /\ urlCache'[k] # urlCache[k]) =>
           urlCache'[k].expiresAt >= urlCache[k].createdAt]_vars

\* C20, amended: the same for every URL whose signature (X-Amz-Date) is not
\* older than the entry it replaces; a URL signed earlier than that is stored
\* as it is.
C20_ExpiryNotBeforeCreationOfFreshlySigned ==
  [][Len(fetches') < Len(fetches) =>
       \A k \in Keys :
         (/\ HasEntry(k) /\ urlCache'[k] # urlCache[k]
          /\ DateUTC(urlCache'[k].url.date) >= urlCache[k].createdAt) =>
           urlCache'[k].expiresAt >= urlCache[k].createdAt]_vars

\* only getUrl was called, and an entry holds a URL the backend served: the
\* refresh that a read of the expired entry had queued replaced the entry
C20_Witness ==
  /\ calls >= 1
  /\ \A i \in 1..MaxCalls : futures[i] = "unused"
  /\ \E k \in Keys : Fresh(k) /\ urlCache[k].url \notin FallbackUrls

\* C21: once getUrl is no longer called for a key, its proactive timer fires
\* once more, triggers at most one refresh and is not re-armed: timers are
\* re-armed only as a consequence of getUrl calls.  So the completion of the
\* refresh that the firing queued (the record whose only waiter is the timer's
\* own promise) arms no timer for the key.
C21_RefreshDoesNotRearm ==
  [][Len(fetches') < Len(fetches) =>
       \A k \in QueuedKeys(refreshQueue) :
         Range(Record(refreshQueue, k).waiters) = {ProactiveWaiter} =>
           Len(proactiveTimeouts'[k]) <= Len(proactiveTimeouts[k])]_vars

\* C22: whenever the pending set is non-empty and no batch is in flight, a
\* queue timer is outstanding whose firing starts a batch; and the
\* isProcessingQueue flag is set without a batch in flight only while the
\* restart timer that clears it is outstanding.
C22_QueueKeepsRunning ==
  /\ (refreshQueue # <<>> /\ fetches = <<>>) =>
       \E t \in queueTimeouts : Len(queueTimerCallback(State, t).fetches) = 1
  /\ (isProcessingQueue /\ fetches = <<>>) =>
       \E t \in queueTimeouts : t.kind = "restart"

\* C23: no waiter is orphaned.  From one state to the next, a record of the
\* pending set either stays the key's record with the waiters it had (more
\* may have been attached), or is removed with every caller that waited on it
\* resolved or rejected.
C23_NoOrphanedWaiter ==
  [][\A k \in QueuedKeys(refreshQueue) :
       LET r == Record(refreshQueue, k)
       IN IF k \in QueuedKeys(refreshQueue')
          THEN LET r2 == Record(refreshQueue', k)
               IN /\ Len(r2.waiters) >= Len(r.waiters)
                  /\ SubSeq(r2.waiters, 1, Len(r.waiters)) = r.waiters
          ELSE \A w \in Range(r.waiters) :
                 w.kind = "caller" => futures'[w.id] \in {"resolved", "rejected"}]_vars

\* C24: refreshUrl on a key that has a record in the pending set creates no
\* record and leaves the record's retry counter and position as they were:
\* the caller is attached to the record as one more waiter, its future left
\* pending; and when a record is removed, the callers that waited on it have
\* all settled the same way.
C24_AttachToExistingRecord ==
  [][/\ \A k \in Keys :
          (RefreshUrlStep(k) /\ k \in QueuedKeys(refreshQueue)) =>
            /\ refreshQueue' =
                 [refreshQueue EXCEPT ![QueueIndex(refreshQueue, k)].waiters =
                    Append(@, Waiter("caller", calls + 1))]
            /\ futures'[calls + 1] = "pending"
     /\ \A k \in QueuedKeys(refreshQueue) \ QueuedKeys(refreshQueue') :
          \A w1, w2 \in Range(Record(refreshQueue, k).waiters) :
            (w1.kind = "caller" /\ w2.kind = "caller") =>
              /\ futures'[w1.id] = futures'[w2.id]
              /\ futures'[w1.id] \in {"resolved", "rejected"}]_vars

C26_FullBatchSentAtOnce ==
  [][(/\ calls' = calls + 1
      /\ Len(refreshQueue) < MAX_BATCH_SIZE
      /\ Len(refreshQueue') >= MAX_BATCH_SIZE
      /\ fetches = <<>>) =>
       Len(fetches') = 1]_vars

\* C27: scheduleProactiveRefresh arms a timer only if the key has no timer and
\* remaining = expiresAt - now exceeds MIN_REFRESH_WINDOW; the delay is
\* 0.8 x remaining (in whole milliseconds), at least MIN_SCHEDULE_DELAY, and
\* the timer is due strictly before expiresAt; otherwise, in particular when
\* remaining <= 10 s, nothing changes.  Stated of the call made in any
\* reachable state, for every key.
C27_ArmContract ==
  \A k \in Keys :
    LET s == scheduleProactiveRefresh(State, k)
    IN IF /\ HasEntry(k) /\ k \notin proactiveRefreshTimers
          /\ urlCache[k].expiresAt - now > MIN_REFRESH_WINDOW
       THEN LET remaining == urlCache[k].expiresAt - now
                armed == s.proactiveTimeouts[k]
                delay == armed[Len(armed)] - now
            IN /\ Len(armed) = Len(proactiveTimeouts[k]) + 1
               /\ 10 * delay <= 8 * remaining /\ 8 * remaining < 10 * (delay + 1)
               /\ delay >= MIN_SCHEDULE_DELAY
               /\ now + delay < urlCache[k].expiresAt
               /\ s = [State EXCEPT !.proactiveTimeouts[k] = armed,
                                    !.proactiveRefreshTimers = @ \cup {k}]
       ELSE s = State

\* a timer has just been armed for an entry, at 80% of its remaining lifetime
C27_Witness ==
  \E k \in Keys :
    /\ HasEntry(k) /\ urlCache[k].createdAt = now /\ now > 0
    /\ k \in proactiveRefreshTimers
    /\ proactiveTimeouts[k] =
         <<now + (8 * (urlCache[k].expiresAt - now)) \div 10>>

\* C28: a failed refresh attempt does not block the key: once a key's waiters
\* were rejected the key has no record, and a later refreshUrl on the still
\* expired entry queues a record with retry counter 0 that is sent in a later
\* batch.  So no such record, queued by a call made after a rejection and
\* never answered, is left with its caller pending once nothing is outstanding.
C28_FailedKeyNotBlocked ==
  AtRest =>
    \A k \in QueuedKeys(refreshQueue) :
      LET r == Record(refreshQueue, k)
      IN ~(/\ r.retries = 0
           /\ ~Fresh(k)
           /\ \E w \in Range(r.waiters) :
                /\ w.kind = "caller" /\ futures[w.id] = "pending"
                /\ \E c \in 1..(w.id - 1) : futures[c] = "rejected")

\* C29: every entry stored in the cache, by get seeding or by a successful
\* refresh, has expiresAt = signedAt + validFor when its URL parses and
\* createdAt + defaultTTL when it does not; a get with an unparseable URL for
\* an unknown key still stores the entry and returns that URL.
C29_StoredExpiry ==
  [][/\ \A k \in Keys :
          urlCache'[k] # urlCache[k] =>
            /\ urlCache'[k] # NoEntry
            /\ urlCache'[k].createdAt = now
            /\ urlCache'[k].expiresAt =
                 IF Signed(urlCache'[k].url)
                 THEN DateUTC(urlCache'[k].url.date) + urlCache'[k].url.expires * 1000
                 ELSE urlCache'[k].createdAt + expirySeconds' * 1000
     /\ \A k \in Keys : \A u \in FallbackUrls :
          (GetUrlStep(k, u) /\ ~HasEntry(k) /\ ~Signed(u)) =>
            /\ urlCache'[k] # NoEntry
            /\ urlCache'[k].url = u
            /\ getUrlResult([State EXCEPT !.urlCache = urlCache'], k, u) = u]_vars

\* An unparseable URL stored after time 0 with the default TTL, next to a
\* signed one stored with its parsed expiry.
C29_Witness ==
  \E k, k2 \in Keys :
    /\ HasEntry(k) /\ ~Signed(urlCache[k].url) /\ urlCache[k].createdAt > 0
    /\ urlCache[k].expiresAt = urlCache[k].createdAt + expirySeconds * 1000
    /\ HasEntry(k2) /\ Signed(urlCache[k2].url) /\ urlCache[k2].createdAt > 0
    /\ urlCache[k2].expiresAt = urlCache[k2].createdAt + 25000

\* C30: a transport failure of a batch affects only the keys sent in that
\* batch: the record of every other queued key stays in the queue with its
\* waiters and retry counter unchanged, and none of its waiters is settled.
C30_FailureSparesOtherKeys ==
  [][\A i \in 1..Len(fetches) :
       FailureStep(i) =>
         \A k \in QueuedKeys(refreshQueue) \ Range(fetches[i].requests) :
           /\ k \in QueuedKeys(refreshQueue')
           /\ Record(refreshQueue', k) = Record(refreshQueue, k)
           /\ \A w \in Range(Record(refreshQueue, k).waiters) :
                w.kind = "caller" => futures'[w.id] = futures[w.id]]_vars

====
